---- MODULE Spec2Model ----
(***************************************************************************)
(* A model of gfx_macros (src/src/lib.rs): the field-name scan find_name,  *)
(* the generated re-export module of extern_crate_hack and the path        *)
(* rewrite of ExternCrateHackFolder.                                       *)
(***************************************************************************)
EXTENDS Naturals, Sequences, FiniteSets

VARIABLES
    pc,          \* position of the operation in progress
    attributes,  \* find_name: the field's attributes (the slice being folded)
    idx,         \* find_name: index of the next attribute the fold visits
    name,        \* find_name: the fold's accumulator
    warnings,    \* find_name: warnings handed to cx.span_warn by this call
    used,        \* find_name: indices of the attributes given to attr::mark_used
    result,      \* find_name: the value returned
    prev,        \* an earlier finished call of find_name, kept for comparison
    interner,    \* the identifier interner behind token::intern and gensym
    user_idents, \* names the parser interned for identifiers the user wrote
    pushed,      \* extern_crate_hack: items handed to `push`, in order
    returned,    \* extern_crate_hack: identifiers returned, in order
    item,        \* fixup_extern_crate_paths: the path of the item to fold
    path_root,   \* ExternCrateHackFolder.path_root
    folded       \* fixup_extern_crate_paths: the path after the fold

vars == <<pc, attributes, idx, name, warnings, used, result, prev,
          interner, user_idents, pushed, returned, item, path_root, folded>>

nameVars == <<attributes, idx, name, warnings, used, result, prev>>
hackVars == <<interner, user_idents, pushed, returned>>
foldVars == <<item, path_root, folded>>

----------------------------------------------------------------------------
(* Bounds *)

MaxAttrs == 3
MaxRerunAttrs == 2
MaxHackCalls == 3
MaxSegs == 3
MaxNestedSegs == 1

----------------------------------------------------------------------------
(* Option<T> *)

None == <<>>
Some(x) == <<x>>

----------------------------------------------------------------------------
(* find_name *)

\* The string literals that occur as values of attributes.
NameStrings == {"A", "B", "C"}

\* ast::MetaItem_: a word, a list, or key = literal.
MetaWord == [kind |-> "MetaWord", key |-> "", lit |-> "", val |-> ""]
MetaList == [kind |-> "MetaList", key |-> "", lit |-> "", val |-> ""]
MetaNameValue(k, l, v) == [kind |-> "MetaNameValue", key |-> k, lit |-> l, val |-> v]

Attributes ==
    {MetaWord, MetaList}
    \cup {MetaNameValue("name", "LitStr", s) : s \in NameStrings}
    \cup {MetaNameValue("name", "LitInt", "A"), MetaNameValue("other", "LitStr", "A")}

SeqsUpTo(S, n) == UNION {[1..k -> S] : k \in 0..n}

AttrSeqs == SeqsUpTo(Attributes, MaxAttrs)
RerunSeqs == SeqsUpTo(Attributes, MaxRerunAttrs)

\* The message of the warning: format! of the new name and the name in hand.
Warning(new_name, old_name) == [new |-> new_name, retained |-> old_name]

\* A closure that marks only the attribute that sets the name.
find_name_closure_first_mark(acc, attribute) ==
    IF attribute.kind = "MetaNameValue"
    THEN IF attribute.key = "name" /\ attribute.lit = "LitStr"
         THEN [mark |-> acc = None,
               warn |-> IF acc = None THEN <<>>
                        ELSE <<Warning(attribute.val, acc[1])>>,
               name |-> IF acc = None THEN Some(attribute.val) ELSE None]
         ELSE [mark |-> FALSE, warn |-> <<>>, name |-> None]
    ELSE [mark |-> FALSE, warn |-> <<>>, name |-> acc]

\* A closure that takes any string-valued key = value for a name.
find_name_closure_any_key(acc, attribute) ==
    IF attribute.kind = "MetaNameValue"
    THEN IF attribute.lit = "LitStr"
         THEN [mark |-> TRUE,
               warn |-> IF acc = None THEN <<>>
                        ELSE <<Warning(attribute.val, acc[1])>>,
               name |-> IF acc = None THEN Some(attribute.val) ELSE None]
         ELSE [mark |-> FALSE, warn |-> <<>>, name |-> None]
    ELSE [mark |-> FALSE, warn |-> <<>>, name |-> acc]

\* The closure of the fold: what one attribute does to the accumulator,
\* whether it is marked used, and the warning it emits (none or one).
find_name_closure(acc, attribute) ==
    IF attribute.kind = "MetaNameValue"
    THEN IF attribute.key = "name" /\ attribute.lit = "LitStr"
         THEN [mark |-> TRUE,
               warn |-> IF acc = None THEN <<>>
                        ELSE <<Warning(attribute.val, acc[1])>>,
               name |-> IF acc = None THEN Some(attribute.val) ELSE None]
         ELSE [mark |-> FALSE, warn |-> <<>>, name |-> None]
    ELSE [mark |-> FALSE, warn |-> <<>>, name |-> acc]

\* A fold that starts from whatever the accumulator held before.
fold_init_leftover(leftover) == leftover

\* The initial accumulator of the fold.
fold_init(leftover) == None

RECURSIVE fold(_, _, _)

\* attributes.iter().fold(init, closure), with the warnings the closure
\* emits on the way.
fold(attrs, acc, warns) ==
    IF attrs = <<>>
    THEN [name |-> acc, warnings |-> warns]
    ELSE LET r == find_name_closure(acc, Head(attrs))
         IN fold(Tail(attrs), r.name, warns \o r.warn)

\* find_name as a function of the attributes.
find_name(attrs) == fold(attrs, fold_init(None), <<>>)

\* find_name is entered with the attributes of one field.
FindNameCall(attrs) ==
    /\ pc = "idle"
    /\ pc' = "fold"
    /\ attributes' = attrs
    /\ idx' = 1
    /\ name' = fold_init(name)
    /\ warnings' = <<>>
    /\ used' = {}
    /\ UNCHANGED <<result, prev>>
    /\ UNCHANGED <<hackVars, foldVars>>

\* One iteration of the fold.
FindNameStep ==
    /\ pc = "fold"
    /\ idx <= Len(attributes)
    /\ LET r == find_name_closure(name, attributes[idx])
       IN /\ name' = r.name
          /\ warnings' = warnings \o r.warn
          /\ used' = IF r.mark THEN used \cup {idx} ELSE used
    /\ idx' = idx + 1
    /\ UNCHANGED <<pc, attributes, result, prev>>
    /\ UNCHANGED <<hackVars, foldVars>>

\* The fold is over: its accumulator is the result.
FindNameReturn ==
    /\ pc = "fold"
    /\ idx > Len(attributes)
    /\ pc' = "done"
    /\ result' = name
    /\ UNCHANGED <<attributes, idx, name, warnings, used, prev>>
    /\ UNCHANGED <<hackVars, foldVars>>

\* The caller has taken the result; the call's frame is gone.
FindNameDrop ==
    /\ pc = "done"
    /\ pc' = "idle"
    /\ attributes' = <<>>
    /\ idx' = 1
    /\ warnings' = <<>>
    /\ used' = {}
    /\ result' = None
    /\ UNCHANGED <<name, prev>>
    /\ UNCHANGED <<hackVars, foldVars>>

\* The observer keeps the finished call to compare a later one with.
Remember ==
    /\ pc = "done"
    /\ prev = None
    /\ prev' = Some([attributes |-> attributes, result |-> result,
                     warnings |-> warnings, between |-> FALSE])
    /\ UNCHANGED <<pc, attributes, idx, name, warnings, used, result>>
    /\ UNCHANGED <<hackVars, foldVars>>

\* The observer notes that a call on another field has finished since.
Between ==
    /\ pc = "done"
    /\ prev # None
    /\ prev[1].attributes # attributes
    /\ ~prev[1].between
    /\ prev' = Some([prev[1] EXCEPT !.between = TRUE])
    /\ UNCHANGED <<pc, attributes, idx, name, warnings, used, result>>
    /\ UNCHANGED <<hackVars, foldVars>>

NameInit ==
    /\ pc = "idle"
    /\ attributes = <<>>
    /\ idx = 1
    /\ name = None
    /\ warnings = <<>>
    /\ used = {}
    /\ result = None
    /\ prev = None
    /\ interner = <<>>
    /\ user_idents = {}
    /\ pushed = <<>>
    /\ returned = <<>>
    /\ item = None
    /\ path_root = 0
    /\ folded = None

NameNext ==
    \/ \E attrs \in AttrSeqs : FindNameCall(attrs)
    \/ FindNameStep
    \/ FindNameReturn
    \/ FindNameDrop

SpecName == NameInit /\ [][NameNext]_vars

RerunNext ==
    \/ \E attrs \in RerunSeqs : FindNameCall(attrs)
    \/ FindNameStep
    \/ FindNameReturn
    \/ FindNameDrop
    \/ Remember
    \/ Between

SpecRerun == NameInit /\ [][RerunNext]_vars

----------------------------------------------------------------------------
(* The identifier interner (token::intern, token::gensym_ident, as_str) *)

\* Marker string the generated identifier is based on.
EXTERN_CRATE_HACK == "__gfx_extern_crate_hack"

\* An entry of the interner's table: the string, and whether the string
\* maps back to this entry (an interned string does, a gensym does not).
Entry(s, m) == [str |-> s, mapped |-> m]

\* The interner as the plugin finds it: the keyword `self` is interned.
FreshInterner == <<Entry("self", TRUE)>>

\* token::intern and the ident_of / str_to_ident built on it: the name the
\* string maps to, a new one when it maps to none.
intern(table, s) ==
    LET hits == {i \in 1..Len(table) : table[i].str = s /\ table[i].mapped}
    IN IF hits # {}
       THEN [table |-> table, name |-> CHOOSE i \in hits : TRUE]
       ELSE [table |-> Append(table, Entry(s, TRUE)), name |-> Len(table) + 1]

\* A gensym that hands out the interned name of the string.
gensym_ident_interned(table, s) == intern(table, s)

\* token::gensym_ident: a new name with the string of s, which s does not
\* map to.
gensym_ident(table, s) ==
    [table |-> Append(table, Entry(s, FALSE)), name |-> Len(table) + 1]

\* Ident::as_str: the string of a name.
as_str(table, ident) == table[ident].str

----------------------------------------------------------------------------
(* extern_crate_hack *)

\* Identifiers the user's own source may spell.
UserStrings == {EXTERN_CRATE_HACK, "gfx", "foo"}

\* mod <ident> { extern crate "gfx" as <extern_ident>;
\*               pub use <use_path> as <use_ident>; }
item_mod(ident, extern_ident, use_ident, use_path) ==
    [node |-> "ItemMod", ident |-> ident,
     extern_crate |-> "gfx", extern_ident |-> extern_ident,
     use_vis |-> "Public", use_ident |-> use_ident, use_path |-> use_path]

\* The parser meets an identifier written by the user.
UserIntern(s) ==
    /\ pc = "idle"
    /\ LET r == intern(interner, s)
       IN /\ r.name \notin user_idents
          /\ interner' = r.table
          /\ user_idents' = user_idents \cup {r.name}
    /\ UNCHANGED <<pc, pushed, returned>>
    /\ UNCHANGED <<nameVars, foldVars>>

\* extern_crate_hack: gensym the module's identifier, build the module,
\* push it, return the identifier.
ExternCrateHack ==
    /\ pc = "idle"
    /\ Len(returned) < MaxHackCalls
    /\ LET g == gensym_ident(interner, EXTERN_CRATE_HACK)
           gfx_ == intern(g.table, "gfx_")
           gfx == intern(gfx_.table, "gfx")
           self == intern(gfx.table, "self")
           gfx_2 == intern(self.table, "gfx_")
           module == item_mod(g.name, gfx_.name, gfx.name,
                              <<self.name, gfx_2.name>>)
       IN /\ interner' = gfx_2.table
          /\ pushed' = Append(pushed, module)
          /\ returned' = Append(returned, g.name)
    /\ UNCHANGED <<pc, user_idents>>
    /\ UNCHANGED <<nameVars, foldVars>>

HackInit ==
    /\ pc = "idle"
    /\ attributes = <<>>
    /\ idx = 1
    /\ name = None
    /\ warnings = <<>>
    /\ used = {}
    /\ result = None
    /\ prev = None
    /\ interner = FreshInterner
    /\ user_idents = {}
    /\ pushed = <<>>
    /\ returned = <<>>
    /\ item = None
    /\ path_root = 0
    /\ folded = None

HackNext ==
    \/ \E s \in UserStrings : UserIntern(s)
    \/ ExternCrateHack

SpecHack == HackInit /\ [][HackNext]_vars

----------------------------------------------------------------------------
(* ExternCrateHackFolder and fixup_extern_crate_paths *)

\* ast::Path: the global flag and the segments, each an identifier with its
\* type parameters (paths again).  `user` records who wrote the path: the
\* user's source, or the deriving code.
Path(g, u, segs) == [global |-> g, user |-> u, segments |-> segs]
PathSegment(id, params) == [identifier |-> id, parameters |-> params]

\* The table the fold runs with: the user has written the marker's spelling
\* and `foo`, and gensym_ident has made the folder's path_root.
FoldInterner ==
    gensym_ident(intern(intern(FreshInterner, EXTERN_CRATE_HACK).table,
                        "foo").table, EXTERN_CRATE_HACK)

\* Names a path can hold: no user can write the gensym.
NamesOf(u) ==
    {n \in 1..Len(FoldInterner.table) : u => FoldInterner.table[n].mapped}

\* Segments without type parameters, at most n of them.
FlatSegments(u, n) ==
    SeqsUpTo({PathSegment(id, <<>>) : id \in NamesOf(u)}, n)

\* The type parameters of a segment: none, or one path without parameters
\* of its own; a path the user wrote holds only what the user wrote.
Parameters(u, n) ==
    {<<>>} \cup
    UNION {{<<Path(g, v, segs)>> : g \in BOOLEAN, segs \in FlatSegments(v, n)}
           : v \in IF u THEN {TRUE} ELSE BOOLEAN}

\* A rewrite that takes the first segment also for self::marker.
rewrite_first_segment(p, root, table) ==
    LET needs_fix ==
            /\ Len(p.segments) >= 1
            /\ as_str(table, p.segments[1].identifier) = EXTERN_CRATE_HACK
        needs_fix_self ==
            /\ Len(p.segments) >= 1
            /\ as_str(table, p.segments[1].identifier) = "self"
            /\ Len(p.segments) >= 2
            /\ as_str(table, p.segments[2].identifier) = EXTERN_CRATE_HACK
    IN IF needs_fix \/ needs_fix_self
       THEN [p EXCEPT !.segments[1].identifier = root, !.global = FALSE]
       ELSE p

\* fold_path after noop_fold_path: the checks of the first two segments and
\* the rewrite.
rewrite(p, root, table) ==
    LET needs_fix ==
            /\ Len(p.segments) >= 1
            /\ as_str(table, p.segments[1].identifier) = EXTERN_CRATE_HACK
        needs_fix_self ==
            /\ Len(p.segments) >= 1
            /\ as_str(table, p.segments[1].identifier) = "self"
            /\ Len(p.segments) >= 2
            /\ as_str(table, p.segments[2].identifier) = EXTERN_CRATE_HACK
    IN IF needs_fix
       THEN [p EXCEPT !.segments[1].identifier = root, !.global = FALSE]
       ELSE IF needs_fix_self
       THEN [p EXCEPT !.segments[2].identifier = root, !.global = FALSE]
       ELSE p

RECURSIVE fold_path(_, _, _)

\* syntax::fold::noop_fold_path: the folder visits the paths in the type
\* parameters of every segment; identifiers and the flag stay.
noop_fold_path(p, root, table) ==
    [p EXCEPT !.segments =
        [i \in 1..Len(p.segments) |->
            [p.segments[i] EXCEPT !.parameters =
                [j \in 1..Len(p.segments[i].parameters) |->
                    fold_path(p.segments[i].parameters[j], root, table)]]]]

\* ExternCrateHackFolder::fold_path
fold_path(p, root, table) == rewrite(noop_fold_path(p, root, table), root, table)

\* fixup_extern_crate_paths: fold the item with a folder rooted at path_root.
FixupExternCratePaths ==
    /\ pc = "idle"
    /\ pc' = "done"
    /\ folded' = Some(fold_path(item[1], path_root, interner))
    /\ UNCHANGED <<item, path_root>>
    /\ UNCHANGED <<nameVars, hackVars>>

FoldInit ==
    /\ pc = "idle"
    /\ attributes = <<>>
    /\ idx = 1
    /\ name = None
    /\ warnings = <<>>
    /\ used = {}
    /\ result = None
    /\ prev = None
    /\ interner = FoldInterner.table
    /\ user_idents = {}
    /\ pushed = <<>>
    /\ returned = <<>>
    /\ \E g \in BOOLEAN, u \in BOOLEAN :
          \/ item = Some(Path(g, u, <<>>))
          \/ \E front \in FlatSegments(u, MaxSegs - 1), id \in NamesOf(u),
                params \in Parameters(u, MaxNestedSegs) :
                item = Some(Path(g, u, front \o <<PathSegment(id, params)>>))
    /\ path_root = FoldInterner.name
    /\ folded = None

FoldNext == FixupExternCratePaths

SpecFold == FoldInit /\ [][FoldNext]_vars

----------------------------------------------------------------------------
(* The claims about find_name *)

\* An annotation that names the field: key "name", string-literal value.
Qualifying(a) ==
    a.kind = "MetaNameValue" /\ a.key = "name" /\ a.lit = "LitStr"

\* The names of the qualifying annotations, in order.
QualNames(attrs) ==
    LET q == SelectSeq(attrs, Qualifying)
    IN [i \in 1..Len(q) |-> q[i].val]

\* C1: two qualifying annotations, "A" then "B": the result is Some("A")
\* and exactly one warning is emitted, quoting "B" and "A".
C1_FirstOfTwoWins ==
    (pc = "done" /\ QualNames(attributes) = <<"A", "B">>)
        => /\ result = Some("A")
           /\ warnings = <<Warning("B", "A")>>

\* C2: exactly one qualifying annotation name="X": the result is Some("X")
\* and no warning is emitted, whatever else is attached and wherever.
C2_SingleNameReturned ==
    (pc = "done" /\ Len(QualNames(attributes)) = 1)
        => /\ result = Some(QualNames(attributes)[1])
           /\ warnings = <<>>

\* C3: non-qualifying annotations are ignored: the result and the warnings
\* are those of the sequence with every non-qualifying annotation removed.
C3_NonQualifyingIgnored ==
    pc = "done"
        => /\ result = find_name(SelectSeq(attributes, Qualifying)).name
           /\ warnings = find_name(SelectSeq(attributes, Qualifying)).warnings

\* C4: with no qualifying annotation (the empty sequence included) the
\* result is None and no warning is emitted.
C4_NoNameGivesNone ==
    (pc = "done" /\ QualNames(attributes) = <<>>)
        => /\ result = None
           /\ warnings = <<>>

\* A finished call on a field with annotations, none of them qualifying,
\* among them a key = value pair.
C4_Witness ==
    /\ pc = "done"
    /\ Len(attributes) >= 2
    /\ QualNames(attributes) = <<>>
    /\ \E i \in 1..Len(attributes) : attributes[i].kind = "MetaNameValue"
    /\ result = None

\* C5: with q >= 1 qualifying annotations, q-1 warnings are emitted, the
\* k-th quoting the (k+1)-th qualifying name as new and the first as
\* retained, and the result is the first qualifying name.
C5_EachLaterNameWarns ==
    (pc = "done" /\ Len(QualNames(attributes)) >= 1)
        => LET q == QualNames(attributes)
           IN /\ result = Some(q[1])
              /\ warnings = [k \in 1..(Len(q) - 1) |-> Warning(q[k + 1], q[1])]

\* C9: the attributes marked used are exactly the qualifying ones among
\* those the fold has visited, and the fold visits every attribute: when it
\* is over, exactly the qualifying attributes are marked.
C9_UsedIsQualifying ==
    /\ pc \in {"fold", "done"}
         => used = {i \in 1..(idx - 1) : Qualifying(attributes[i])}
    /\ pc = "done" => idx = Len(attributes) + 1

\* A finished call that warned, marked the conflicting annotation too and
\* went on to a non-qualifying annotation.
C9_Witness ==
    /\ pc = "done"
    /\ Len(warnings) >= 1
    /\ Cardinality(used) >= 2
    /\ ~Qualifying(attributes[Len(attributes)])
    /\ Len(attributes) \notin used

\* C10: a call on the attributes of an earlier call returns what the
\* earlier call returned and emits the warnings it emitted, whatever calls
\* were made in between.
C10_SameInputSameOutput ==
    (pc = "done" /\ prev # None /\ prev[1].attributes = attributes)
        => /\ result = prev[1].result
           /\ warnings = prev[1].warnings

\* The second call on the same attributes, a call on another field having
\* finished in between, on an input that names the field.
C10_Witness ==
    /\ pc = "done"
    /\ prev # None
    /\ prev[1].between
    /\ prev[1].attributes = attributes
    /\ result # None

----------------------------------------------------------------------------
(* The claims about extern_crate_hack *)

\* C7: every call has pushed one module, named by the identifier the call
\* returned and re-exporting crate gfx as gfx; the identifiers returned are
\* pairwise distinct, and none is a name the user's identifiers have or can
\* get.
C7_GeneratedModulesDistinct ==
    /\ Len(pushed) = Len(returned)
    /\ \A i \in 1..Len(returned) :
          /\ pushed[i].node = "ItemMod"
          /\ pushed[i].ident = returned[i]
          /\ pushed[i].extern_crate = "gfx"
          /\ as_str(interner, pushed[i].use_ident) = "gfx"
          /\ pushed[i].use_path[2] = pushed[i].extern_ident
          /\ as_str(interner, returned[i]) = EXTERN_CRATE_HACK
          /\ returned[i] \notin user_idents
          /\ \A s \in UserStrings : intern(interner, s).name # returned[i]
    /\ \A i, j \in 1..Len(returned) : i # j => returned[i] # returned[j]

\* Two modules have been generated, and the user has written the marker's
\* spelling after the first of them.
C7_Witness ==
    /\ Len(returned) >= 2
    /\ \E n \in user_idents :
          /\ as_str(interner, n) = EXTERN_CRATE_HACK
          /\ n > returned[1]

----------------------------------------------------------------------------
(* The claims about fold_path *)

Idents(p) == [i \in 1..Len(p.segments) |-> p.segments[i].identifier]

StartsWithMarker(p) ==
    /\ Len(p.segments) >= 1
    /\ as_str(interner, p.segments[1].identifier) = EXTERN_CRATE_HACK

StartsWithSelfMarker(p) ==
    /\ Len(p.segments) >= 2
    /\ as_str(interner, p.segments[1].identifier) = "self"
    /\ as_str(interner, p.segments[2].identifier) = EXTERN_CRATE_HACK

\* The paths in the type parameters of p, each with what became of it in q.
NestedPairs(p, q) ==
    UNION {{<<p.segments[i].parameters[j], q.segments[i].parameters[j]>> :
              j \in 1..Len(p.segments[i].parameters)} : i \in 1..Len(p.segments)}

\* q is p with at most the one segment rewritten.
OneSegmentRewritten(p, q) ==
    /\ Len(q.segments) = Len(p.segments)
    /\ \A i \in 1..Len(p.segments) :
          Len(q.segments[i].parameters) = Len(p.segments[i].parameters)
    /\ IF StartsWithMarker(p)
       THEN /\ q.global = FALSE
            /\ Idents(q) = [Idents(p) EXCEPT ![1] = path_root]
       ELSE IF StartsWithSelfMarker(p)
       THEN /\ q.global = FALSE
            /\ Idents(q) = [Idents(p) EXCEPT ![2] = path_root]
       ELSE /\ q.global = p.global
            /\ Idents(q) = Idents(p)

\* q holds every identifier of p.
IdentsKept(p, q) ==
    /\ Len(q.segments) = Len(p.segments)
    /\ Idents(q) = Idents(p)

\* C6: the fold alters no identifier the user wrote, a path spelled with
\* the marker included, and returns identical every path that begins
\* neither with the marker nor with self::marker.
C6_OnlyGeneratedAltered ==
    pc = "done"
        => /\ item[1].user => IdentsKept(item[1], folded[1])
           /\ \A pq \in NestedPairs(item[1], folded[1]) :
                 pq[1].user => IdentsKept(pq[1], pq[2])
           /\ (~StartsWithMarker(item[1]) /\ ~StartsWithSelfMarker(item[1]))
                 => folded[1] = item[1]

\* C8: of a path that begins with the marker, segment 0 becomes path_root;
\* else of a path that begins with self::marker, segment 1 does; the result
\* is then not global; no other identifier and no segment count changes,
\* and a path of no segments or a lone `self` is not rewritten.  The same
\* holds of every path in the type parameters.
C8_OneSegmentRewritten ==
    pc = "done"
        => /\ OneSegmentRewritten(item[1], folded[1])
           /\ \A pq \in NestedPairs(item[1], folded[1]) :
                 OneSegmentRewritten(pq[1], pq[2])
           /\ (Len(item[1].segments) = 0 \/
               (Len(item[1].segments) = 1 /\
                as_str(interner, item[1].segments[1].identifier) = "self"))
                 => (Idents(folded[1]) = Idents(item[1]) /\
                     folded[1].global = item[1].global)

\* A global path self::marker::foo<marker> has been folded: its second
\* segment and the first of its parameter are path_root.
C8_Witness ==
    /\ pc = "done"
    /\ item[1].global
    /\ Len(item[1].segments) = 3
    /\ StartsWithSelfMarker(item[1])
    /\ folded[1].segments[2].identifier = path_root
    /\ folded[1].segments[1].identifier = item[1].segments[1].identifier
    /\ \E pq \in NestedPairs(item[1], folded[1]) :
          StartsWithMarker(pq[1]) /\ pq[2].segments[1].identifier = path_root

====
